---- MODULE Spec2Model ----
(***************************************************************************)
(* State-machine model of AudioPlayer (src/Intu_Player2.2.py): the         *)
(* playlist, its cursor, the playback engine as the handlers drive it, the *)
(* settings file on disk and the directory that is scanned.                *)
(*                                                                         *)
(* Conventions.  A path is the pair <<directory, name>>, already absolute  *)
(* and written with forward slashes; None is the empty tuple.  File names  *)
(* are numbered: 0 is a file without an audio extension, 1..MaxFiles are   *)
(* audio files, listed by QDir in that order; HanName is a file whose name *)
(* is written in Han characters, so that its pinyin key sorts first.       *)
(* Python indexes are 0-based, TLA+ sequences 1-based: playlist[i] of the  *)
(* code is playlist[i + 1] here.                                           *)
(***************************************************************************)
EXTENDS Integers, Sequences, FiniteSets, TLC

\* ------------------------------------------------------------------ bounds
NumDirs == 1
MaxFiles == 2
MaxPos == 1
NumDevices == 2

DirTable == <<"/m", "/n", "/o">>
Dirs == {DirTable[i] : i \in 1..NumDirs}
DeviceTable == <<"Headphones", "Speakers", "USB">>

None == <<>>
AudioNames == 1..MaxFiles
HanName == MaxFiles
AllPaths == {<<d, n>> : d \in Dirs, n \in 0..MaxFiles}

VARIABLES
  phase,              \* "off": no process; "running": the window is up
  lastOp,             \* the operation that produced this state
  last_dir, last_device_desc, playlist_memory, current_file_path,
  window_geometry,    \* the persisted fields of AudioPlayer
  audio_output,       \* description of the device the engine is bound to
  playlist, current_index,
  source, playbackState, position,   \* QMediaPlayer
  settings_file,      \* content of settings.json
  dirs, files,        \* the file system: existing directories, audio files
  runStart, runLen    \* history: cursor before, and length of, the current
                      \* run of consecutive next (or previous) calls

vars == <<phase, lastOp, last_dir, last_device_desc, playlist_memory,
          current_file_path, window_geometry, audio_output, playlist,
          current_index, source, playbackState, position, settings_file,
          dirs, files, runStart, runLen>>

\* ------------------------------------------------------------ list helpers
Range(s) == {s[i] : i \in 1..Len(s)}

\* Python: x in list
Contains(s, x) == x \in Range(s)

\* Python: list.index(x), 0-based, first occurrence (x is in the list)
index(s, x) == (CHOOSE i \in 1..Len(s) : s[i] = x /\ \A j \in 1..(i - 1) : s[j] # x) - 1

\* os.path.dirname
dirname(p) == p[1]

\* os.path.isdir
isdir(d) == d \in dirs

\* a file the open dialog can return
Exists(p) == p[1] \in dirs /\ (p[2] = 0 \/ p \in files)

\* ------------------------------------------------------- directory scanning
\* ''.join(lazy_pinyin(basename)): Han characters become their pinyin
PinyinKey(p) == IF p[2] = HanName THEN 0 ELSE p[2]

\* QDir.entryInfoList(name_filters, Files): audio files of d in name order
RECURSIVE entryInfoListUpTo(_, _)
entryInfoListUpTo(d, n) ==
  IF n = 0 THEN <<>>
  ELSE LET rest == entryInfoListUpTo(d, n - 1)
       IN  IF <<d, n>> \in files THEN Append(rest, <<d, n>>) ELSE rest

entryInfoList(d) == IF isdir(d) THEN entryInfoListUpTo(d, MaxFiles) ELSE <<>>

\* list.sort(key=...) is stable: x goes after the elements whose key is <= its
InsertByKey(x, s) ==
  LET n == Cardinality({i \in 1..Len(s) : PinyinKey(s[i]) <= PinyinKey(x)})
  IN  SubSeq(s, 1, n) \o <<x>> \o SubSeq(s, n + 1, Len(s))

RECURSIVE SortByKey(_)
SortByKey(s) ==
  IF s = <<>> THEN <<>>
  ELSE InsertByKey(s[Len(s)], SortByKey(SubSeq(s, 1, Len(s) - 1)))

\* the list load_directory_to_playlist stores in playlist and playlist_memory
ScanDirectory(d) == SortByKey(entryInfoList(d))

\* ------------------------------------------------------------ settings file
AllKeys == {"last_dir", "last_device_desc", "playlist_memory",
            "current_file_path", "window_geometry"}

\* geometry blobs are numbered; DefaultGeometry is setGeometry(200, 200, 800, 500)
DefaultGeometry == 1
ToBase64(blob) == <<"base64", blob[2]>>
FromBase64(text) == <<"bytes", text[2]>>

JsonNull == [type |-> "null", text |-> <<>>]
JsonString(text) == [type |-> "string", text |-> text]
JsonNumber == [type |-> "number", text |-> <<>>]

\* a settings.json that is not a JSON object (kind), or a JSON object
FileOf(kind) ==
  [kind |-> kind, keys |-> {}, last_dir |-> "", last_device_desc |-> "",
   playlist_memory |-> <<>>, current_file_path |-> None,
   window_geometry |-> JsonNull]

\* QMainWindow.saveGeometry(): the geometry the window was given at startup
saveGeometry(wg) == IF wg = None THEN <<"bytes", DefaultGeometry>> ELSE wg

\* the record json.dump writes
save_settings(ld, ldd, pm, cfp, wg) ==
  [kind |-> "object", keys |-> AllKeys, last_dir |-> ld,
   last_device_desc |-> ldd, playlist_memory |-> pm,
   current_file_path |-> cfp,
   window_geometry |-> JsonString(ToBase64(saveGeometry(wg)))]

\* dict.get(key, default)
Get(data, key, default) == IF key \in data.keys THEN data[key] ELSE default

\* the attribute values __init__ sets before it calls load_settings
Defaults ==
  [raised |-> FALSE, last_dir |-> "", last_device_desc |-> "",
   playlist_memory |-> <<>>, current_file_path |-> None,
   window_geometry |-> None]

\* Python truthiness of the value of "window_geometry"
Truthy(g) == g.type = "number" \/ (g.type = "string" /\ g.text # <<>>)

\* load_settings: the attributes afterwards, and whether it raised.
\*   absent              os.path.exists is false
\*   invalid, truncated  json.load raises JSONDecodeError, which is caught
\*   undecodable         open/read raises UnicodeDecodeError: not caught
\*   nonobject           data.get raises AttributeError: not caught
\*   object              the four gets, then geometry_base64.encode, which
\*                       raises AttributeError on a number
load_settings(f) ==
  CASE f.kind = "absent" -> Defaults
    [] f.kind \in {"invalid", "truncated"} -> Defaults
    [] f.kind \in {"undecodable", "nonobject"} -> [Defaults EXCEPT !.raised = TRUE]
    [] f.kind = "object" ->
         LET assigned ==
               [raised |-> FALSE,
                last_dir |-> Get(f, "last_dir", ""),
                last_device_desc |-> Get(f, "last_device_desc", ""),
                playlist_memory |-> Get(f, "playlist_memory", <<>>),
                current_file_path |-> Get(f, "current_file_path", None),
                window_geometry |-> None]
             g == Get(f, "window_geometry", JsonNull)
         IN  IF ~Truthy(g) THEN assigned
             ELSE IF g.type = "string"
                  THEN [assigned EXCEPT !.window_geometry = FromBase64(g.text)]
                  ELSE [assigned EXCEPT !.raised = TRUE]

\* the settings files a first start can find
InitialFiles ==
  {FileOf("absent"), FileOf("invalid"), FileOf("undecodable"),
   FileOf("nonobject"), FileOf("object"),
   [FileOf("object") EXCEPT !.keys = {"last_dir", "window_geometry"},
                            !.last_dir = DirTable[1],
                            !.window_geometry = JsonNumber],
   [FileOf("object") EXCEPT !.keys = {"playlist_memory", "current_file_path"},
                            !.playlist_memory = <<<<DirTable[1], 1>>>>,
                            !.current_file_path = <<DirTable[1], 1>>]}

\* ----------------------------------------------------------------- devices
\* sorted(QMediaDevices.audioOutputs(), key=description)
audio_devices == SubSeq(DeviceTable, 1, NumDevices)

\* the device __init__ binds: the remembered one, else the first
default_device(ldd) == IF Contains(audio_devices, ldd) THEN ldd ELSE audio_devices[1]

\* ------------------------------------------------------------ the handlers
\* play_file: what it assigns, the engine after stop/setSource/play, and the
\* record its save_settings writes
play_file_unsaved(file_path, ld, ldd, pm, wg) ==
  [current_file_path |-> file_path, source |-> file_path,
   playbackState |-> "Playing", position |-> 0,
   settings_file |-> settings_file]
play_file(file_path, ld, ldd, pm, wg) ==
  [current_file_path |-> file_path, source |-> file_path,
   playbackState |-> "Playing", position |-> 0,
   settings_file |-> save_settings(ld, ldd, pm, file_path, wg)]

\* the cursor arithmetic of play_next and play_previous (Python %: 0..n-1)
AdvanceClamped(i, n) == IF i + 1 < n THEN i + 1 ELSE n - 1
Advance(i, n) == (i + 1) % n
Retreat(i, n) == (i - 1) % n

NoRun == runStart' = -1 /\ runLen' = 0

\* the process has ended: its attributes and its engine are gone (they are
\* given the values the next __init__ starts from)
ProcessGone ==
  /\ phase' = "off"
  /\ last_dir' = "" /\ last_device_desc' = "" /\ playlist_memory' = <<>>
  /\ current_file_path' = None /\ window_geometry' = None
  /\ audio_output' = audio_devices[1]
  /\ playlist' = <<>> /\ current_index' = -1
  /\ source' = None /\ playbackState' = "Stopped" /\ position' = 0

\* -------------------------------------------------------------------- Init
\* No process yet: a settings file left by an earlier session or by hand, a
\* directory of audio files, and the attributes at their pre-load values.
Init ==
  /\ phase = "off" /\ lastOp = "boot"
  /\ last_dir = "" /\ last_device_desc = "" /\ playlist_memory = <<>>
  /\ current_file_path = None /\ window_geometry = None
  /\ audio_output = audio_devices[1]
  /\ playlist = <<>> /\ current_index = -1
  /\ source = None /\ playbackState = "Stopped" /\ position = 0
  /\ settings_file \in InitialFiles
  /\ dirs = Dirs
  /\ files = {<<d, n>> : d \in Dirs, n \in AudioNames}
  /\ runStart = -1 /\ runLen = 0

\* AudioPlayer.__init__: load_settings, a fresh engine bound to the remembered
\* device, then the restore of the remembered playlist and track.  An
\* exception of load_settings leaves __init__, and the process ends.
Start ==
  /\ phase = "off"
  /\ LET r == load_settings(settings_file)
         found == r.playlist_memory # <<>>
                    /\ Contains(r.playlist_memory, r.current_file_path)
         pf == play_file(r.current_file_path, r.last_dir, r.last_device_desc,
                         r.playlist_memory, r.window_geometry)
     IN  /\ last_dir' = r.last_dir
         /\ last_device_desc' = r.last_device_desc
         /\ playlist_memory' = r.playlist_memory
         /\ window_geometry' = r.window_geometry
         /\ IF r.raised
            THEN /\ phase' = "off" /\ lastOp' = "init_raised"
                 /\ current_file_path' = r.current_file_path
                 /\ audio_output' = audio_devices[1]
                 /\ playlist' = <<>> /\ current_index' = -1
                 /\ source' = None /\ playbackState' = "Stopped" /\ position' = 0
                 /\ UNCHANGED settings_file
            ELSE /\ phase' = "running" /\ lastOp' = "init"
                 /\ audio_output' = default_device(r.last_device_desc)
                 /\ playlist' = r.playlist_memory
                 /\ IF found
                    THEN /\ current_index' = index(r.playlist_memory, r.current_file_path)
                         /\ current_file_path' = pf.current_file_path
                         /\ source' = pf.source
                         /\ playbackState' = pf.playbackState
                         /\ position' = pf.position
                         /\ settings_file' = pf.settings_file
                    ELSE /\ current_index' = -1
                         /\ current_file_path' = r.current_file_path
                         /\ source' = None /\ playbackState' = "Stopped"
                         /\ position' = 0
                         /\ UNCHANGED settings_file
  /\ NoRun
  /\ UNCHANGED <<dirs, files>>

\* closeEvent: save_settings, then the window closes and the process ends
closeEvent ==
  /\ phase = "running"
  /\ settings_file' = save_settings(last_dir, last_device_desc, playlist_memory,
                                    current_file_path, window_geometry)
  /\ ProcessGone /\ lastOp' = "close"
  /\ NoRun
  /\ UNCHANGED <<dirs, files>>

\* The process dies inside save_settings (here the one of closeEvent):
\* before open(SETTINGS_FILE, "w") the file is untouched; open truncates it,
\* and json.dump then writes through a buffer, so that a death before the
\* last flush leaves an empty file or a prefix of the record.
CrashInSave ==
  /\ phase = "running"
  /\ \E outcome \in {"before_open", "after_open", "after_close"} :
       settings_file' =
         CASE outcome = "before_open" -> settings_file
           [] outcome = "after_open" -> FileOf("truncated")
           [] outcome = "after_close" ->
                save_settings(last_dir, last_device_desc, playlist_memory,
                              current_file_path, window_geometry)
  /\ ProcessGone /\ lastOp' = "crash_in_save"
  /\ NoRun
  /\ UNCHANGED <<dirs, files>>

\* open_file, the try/except around playlist.index(normalized)
open_file_index_before_sort(scanned, p) ==
  IF Contains(scanned, p) THEN index(entryInfoList(dirname(p)), p) ELSE -1
open_file_index_stale(scanned, p) ==
  IF Contains(scanned, p) THEN index(scanned, p) ELSE current_index
open_file_index(scanned, p) ==
  IF Contains(scanned, p) THEN index(scanned, p) ELSE -1

\* open_file: the dialog returns file_path (a cancelled dialog returns).
open_file ==
  /\ phase = "running"
  /\ \E file_path \in {p \in AllPaths : Exists(p)} :
       LET scanned == ScanDirectory(dirname(file_path))
           pf == play_file(file_path, dirname(file_path), last_device_desc,
                           scanned, window_geometry)
       IN  /\ last_dir' = dirname(file_path)
           /\ playlist' = scanned
           /\ playlist_memory' = scanned
           /\ current_file_path' = pf.current_file_path
           /\ source' = pf.source
           /\ playbackState' = pf.playbackState
           /\ position' = pf.position
           /\ current_index' = open_file_index(scanned, file_path)
           /\ settings_file' = save_settings(dirname(file_path), last_device_desc,
                                             scanned, file_path, window_geometry)
  /\ lastOp' = "open"
  /\ NoRun
  /\ UNCHANGED <<phase, last_device_desc, window_geometry, audio_output,
                 dirs, files>>

\* reload_current_directory_playlist, the directory it rescans ("" for None)
reload_dir ==
  IF current_file_path # None THEN dirname(current_file_path) ELSE last_dir

\* reload_current_directory_playlist, the cursor it restores
restored_index_stale(scanned, p) == current_index
restored_index(scanned, p) == index(scanned, p)

\* reload_current_directory_playlist (the refresh button of the playlist
\* dialog).  setSource leaves the engine stopped at 0; setPosition and play
\* follow it.
reload_current_directory_playlist ==
  /\ phase = "running"
  /\ LET current_dir == reload_dir
         was_playing == playbackState = "Playing"
         current_pos == IF was_playing THEN position ELSE 0
         scanned == ScanDirectory(current_dir)
     IN  IF current_dir # "" /\ isdir(current_dir)
         THEN /\ playlist' = scanned
              /\ playlist_memory' = scanned
              /\ IF Contains(scanned, current_file_path)
                 THEN /\ current_index' = restored_index(scanned, current_file_path)
                      /\ source' = current_file_path
                      /\ position' = current_pos
                      /\ playbackState' = IF was_playing THEN "Playing" ELSE "Stopped"
                      /\ UNCHANGED current_file_path
                 ELSE /\ playbackState' = "Stopped" /\ position' = 0
                      /\ current_index' = -1
                      /\ current_file_path' = None
                      /\ UNCHANGED source
         ELSE UNCHANGED <<playlist, playlist_memory, current_index,
                          current_file_path, source, position, playbackState>>
  /\ settings_file' = save_settings(last_dir, last_device_desc, playlist_memory',
                                    current_file_path', window_geometry)
  /\ lastOp' = "reload"
  /\ NoRun
  /\ UNCHANGED <<phase, last_dir, last_device_desc, window_geometry,
                 audio_output, dirs, files>>

\* playlist_file_double_clicked: a row of the playlist dialog, whose rows are
\* the elements of playlist
playlist_file_double_clicked ==
  /\ phase = "running"
  /\ \E file_path \in Range(playlist) :
       LET i == index(playlist, file_path)
           pf == play_file(playlist[i + 1], last_dir, last_device_desc,
                           playlist_memory, window_geometry)
       IN  /\ current_index' = i
           /\ current_file_path' = pf.current_file_path
           /\ source' = pf.source
           /\ playbackState' = pf.playbackState
           /\ position' = pf.position
           /\ settings_file' = pf.settings_file
  /\ lastOp' = "select"
  /\ NoRun
  /\ UNCHANGED <<phase, last_dir, last_device_desc, playlist_memory,
                 window_geometry, audio_output, playlist, dirs, files>>

\* play_pause: pause when playing, else play (which needs a source)
play_pause ==
  /\ phase = "running"
  /\ playbackState' = IF playbackState = "Playing" THEN "Paused"
                      ELSE IF source # None THEN "Playing" ELSE playbackState
  /\ lastOp' = "play_pause"
  /\ NoRun
  /\ UNCHANGED <<phase, last_dir, last_device_desc, playlist_memory,
                 current_file_path, window_geometry, audio_output, playlist,
                 current_index, source, position, settings_file, dirs, files>>

\* stop: player.stop() rewinds
stop ==
  /\ phase = "running"
  /\ playbackState' = "Stopped" /\ position' = 0
  /\ lastOp' = "stop"
  /\ NoRun
  /\ UNCHANGED <<phase, last_dir, last_device_desc, playlist_memory,
                 current_file_path, window_geometry, audio_output, playlist,
                 current_index, source, settings_file, dirs, files>>

\* set_position: the slider
set_position ==
  /\ phase = "running" /\ source # None
  /\ \E pos \in 0..MaxPos : position' = pos
  /\ lastOp' = "seek"
  /\ NoRun
  /\ UNCHANGED <<phase, last_dir, last_device_desc, playlist_memory,
                 current_file_path, window_geometry, audio_output, playlist,
                 current_index, source, playbackState, settings_file, dirs,
                 files>>

\* what play_next and play_previous do once the cursor has moved to i
MoveTo(i) ==
  LET pf == play_file(playlist[i + 1], last_dir, last_device_desc,
                      playlist_memory, window_geometry)
  IN  /\ current_index' = i
      /\ current_file_path' = pf.current_file_path
      /\ source' = pf.source
      /\ playbackState' = pf.playbackState
      /\ position' = pf.position
      /\ settings_file' = pf.settings_file
      /\ UNCHANGED <<phase, last_dir, last_device_desc, playlist_memory,
                     window_geometry, audio_output, playlist, dirs, files>>

\* history of a run of the same button: restarted by any other operation,
\* and once it has reached the length of the playlist
Run(op) ==
  IF lastOp = op /\ runLen < Len(playlist)
  THEN runStart' = runStart /\ runLen' = runLen + 1
  ELSE runStart' = current_index /\ runLen' = 1

play_previous ==
  /\ phase = "running" /\ playlist # <<>>
  /\ MoveTo(Retreat(current_index, Len(playlist)))
  /\ lastOp' = "previous"
  /\ Run("previous")

play_next ==
  /\ phase = "running" /\ playlist # <<>>
  /\ MoveTo(Advance(current_index, Len(playlist)))
  /\ lastOp' = "next"
  /\ Run("next")

\* handle_media_status_change(EndOfMedia): the engine has stopped at the end
\* of the track; the handler calls play_next
EndOfMedia ==
  /\ phase = "running" /\ playbackState = "Playing"
  /\ IF playlist # <<>>
     THEN MoveTo(Advance(current_index, Len(playlist)))
     ELSE /\ playbackState' = "Stopped" /\ position' = MaxPos
          /\ UNCHANGED <<phase, last_dir, last_device_desc, playlist_memory,
                         current_file_path, window_geometry, audio_output,
                         playlist, current_index, source, settings_file,
                         dirs, files>>
  /\ lastOp' = "end_of_media"
  /\ NoRun

\* handle_media_status_change(InvalidMedia): the engine could not read or
\* decode the source and has stopped; the handler does nothing
InvalidMedia ==
  /\ phase = "running" /\ playbackState = "Playing"
  /\ playbackState' = "Stopped"
  /\ lastOp' = "invalid_media"
  /\ NoRun
  /\ UNCHANGED <<phase, last_dir, last_device_desc, playlist_memory,
                 current_file_path, window_geometry, audio_output, playlist,
                 current_index, source, position, settings_file, dirs, files>>

\* the engine plays on
PositionTick ==
  /\ phase = "running" /\ playbackState = "Playing" /\ position < MaxPos
  /\ position' = position + 1
  /\ lastOp' = "tick"
  /\ NoRun
  /\ UNCHANGED <<phase, last_dir, last_device_desc, playlist_memory,
                 current_file_path, window_geometry, audio_output, playlist,
                 current_index, source, playbackState, settings_file, dirs,
                 files>>

\* change_audio_device(index): the combo box reports a changed index
change_audio_device ==
  /\ phase = "running"
  /\ \E i \in 0..(Len(audio_devices) - 1) :
       /\ audio_devices[i + 1] # audio_output
       /\ last_device_desc' = audio_devices[i + 1]
       /\ audio_output' = audio_devices[i + 1]
  /\ IF playbackState # "Stopped" /\ current_file_path # None
     THEN /\ source' = current_file_path
          /\ playbackState' = "Playing"
          /\ UNCHANGED position
     ELSE UNCHANGED <<source, playbackState, position>>
  /\ settings_file' = save_settings(last_dir, last_device_desc', playlist_memory,
                                    current_file_path, window_geometry)
  /\ lastOp' = "device"
  /\ NoRun
  /\ UNCHANGED <<phase, last_dir, playlist_memory, current_file_path,
                 window_geometry, playlist, current_index, dirs, files>>

\* ---------------------------------------------------------- the file system
FsFrame ==
  /\ lastOp' = "fs"
  /\ NoRun
  /\ UNCHANGED <<phase, last_dir, last_device_desc, playlist_memory,
                 current_file_path, window_geometry, audio_output, playlist,
                 current_index, source, playbackState, position,
                 settings_file>>

\* the environment adds and removes files in one directory, and the directory
\* itself; the other directories stay as they are
Watched == DirTable[1]

CreateFile ==
  /\ \E p \in AllPaths : p[2] # 0 /\ p[1] = Watched /\ p[1] \in dirs
                         /\ p \notin files /\ files' = files \cup {p}
  /\ UNCHANGED dirs
  /\ FsFrame

RemoveFile ==
  /\ \E p \in files : p[1] = Watched /\ files' = files \ {p}
  /\ UNCHANGED dirs
  /\ FsFrame

RemoveDir ==
  /\ Watched \in dirs
  /\ dirs' = dirs \ {Watched}
  /\ files' = {p \in files : p[1] # Watched}
  /\ FsFrame

CreateDir ==
  /\ Watched \notin dirs
  /\ dirs' = dirs \cup {Watched}
  /\ UNCHANGED files
  /\ FsFrame

Next ==
  \/ Start \/ closeEvent \/ CrashInSave
  \/ open_file \/ reload_current_directory_playlist
  \/ playlist_file_double_clicked
  \/ play_pause \/ stop \/ set_position
  \/ play_previous \/ play_next
  \/ EndOfMedia \/ InvalidMedia \/ PositionTick
  \/ change_audio_device
  \/ CreateFile \/ RemoveFile \/ RemoveDir \/ CreateDir

Spec == Init /\ [][Next]_vars

\* ------------------------------------------------------------------ claims

\* C1: in every reachable state the cursor is -1 if and only if the playlist
\* is empty or the current file path is not an element of the playlist.
C1_CursorMinusOneIff ==
  (current_index = -1)
    <=> (playlist = <<>> \/ ~Contains(playlist, current_file_path))

\* C1 witness: a file without an audio extension was opened in a directory
\* that has audio files: a non-empty playlist, a current file, and cursor -1.
C1_Witness ==
  /\ lastOp = "open" /\ playlist # <<>> /\ current_file_path # None
  /\ ~Contains(playlist, current_file_path) /\ current_index = -1

\* C2 as stated: after a run of N = len(playlist) consecutive next calls, or
\* N consecutive previous calls, the cursor is the one the run started from,
\* for every starting cursor including -1.
C2_ClosureFromAnyCursor ==
  (lastOp \in {"next", "previous"} /\ runLen = Len(playlist))
    => current_index = runStart

\* C2 amended: a run of N next calls, or N previous calls, returns to the
\* starting cursor c when 0 <= c < N; started from -1 it ends on N - 1.
C2_ClosureFromSelection ==
  (lastOp \in {"next", "previous"} /\ runLen = Len(playlist))
    => current_index = (IF runStart = -1 THEN Len(playlist) - 1 ELSE runStart)

\* C2 witness: N >= 2 previous calls in a row, started on the first track.
C2_Witness ==
  /\ lastOp = "previous" /\ Len(playlist) >= 2 /\ runLen = Len(playlist)
  /\ runStart = 0 /\ current_index = 0

\* C3: a reload while a track is active (playing or paused) at position p,
\* whose path is still in the freshly scanned list, leaves the engine on the
\* same source at position p.
C3_ReloadKeepsOffset ==
  [][(/\ lastOp' = "reload"
      /\ playbackState \in {"Playing", "Paused"}
      /\ current_file_path # None
      /\ Contains(ScanDirectory(dirname(current_file_path)), current_file_path))
     => (source' = current_file_path /\ position' = position)]_vars

\* C4: a device change while a track is active keeps the position, and the
\* engine is playing afterwards if and only if it was playing before.
C4_DeviceChangeKeepsState ==
  [][(lastOp' = "device" /\ playbackState # "Stopped")
     => (/\ position' = position
         /\ (playbackState' = "Playing") <=> (playbackState = "Playing"))]_vars

\* a settings file that is missing or malformed
Malformed(f) ==
  \/ f.kind # "object"
  \/ ("window_geometry" \in f.keys /\ f.window_geometry.type = "number")

\* C5: load_settings never raises, whatever the settings file holds, and on
\* a missing or malformed file all five settings are the defaults.
C5_LoadNeverRaises ==
  [][(phase = "off" /\ phase' \in {"off", "running"}
        /\ lastOp' \in {"init", "init_raised"})
     => (/\ lastOp' = "init"
         /\ Malformed(settings_file)
              => (/\ last_dir' = "" /\ last_device_desc' = ""
                  /\ playlist_memory' = <<>> /\ current_file_path' = None
                  /\ window_geometry' = None))]_vars

\* C6: after a crash at any point of a save, the settings file is the
\* complete previous content or the complete new record.
C6_SaveIsCrashSafe ==
  [][lastOp' = "crash_in_save"
     => settings_file' \in
          {settings_file,
           save_settings(last_dir, last_device_desc, playlist_memory,
                         current_file_path, window_geometry)}]_vars

SavingOps ==
  {"open", "reload", "select", "next", "previous", "end_of_media", "device",
   "close"}

\* C7: after every completed open, reload, select, next, previous,
\* end-of-media advance, device change and close, the record in the settings
\* file has last_dir, last_device_desc, playlist_memory and current_file_path
\* equal to the values in memory at that moment (for close: the values the
\* process ended with).
C7_FileFollowsMemory ==
  [][(lastOp' \in SavingOps /\ (lastOp' = "end_of_media" => playlist # <<>>))
     => (/\ settings_file'.kind = "object"
         /\ AllKeys \subseteq settings_file'.keys
         /\ IF lastOp' = "close"
            THEN /\ settings_file'.last_dir = last_dir
                 /\ settings_file'.last_device_desc = last_device_desc
                 /\ settings_file'.playlist_memory = playlist_memory
                 /\ settings_file'.current_file_path = current_file_path
            ELSE /\ settings_file'.last_dir = last_dir'
                 /\ settings_file'.last_device_desc = last_device_desc'
                 /\ settings_file'.playlist_memory = playlist_memory'
                 /\ settings_file'.current_file_path = current_file_path')]_vars

\* C7 witness: next has moved to a track and the file names that track.
C7_Witness ==
  /\ lastOp = "next" /\ current_file_path # None
  /\ settings_file.kind = "object"
  /\ settings_file.current_file_path = current_file_path
  /\ settings_file.playlist_memory = playlist /\ Len(playlist) >= 2

\* C8: a reload while P is the current file and P is in the rescanned list
\* leaves the current file P and the cursor on P in the new playlist.
C8_ReloadKeepsSelection ==
  [][(/\ lastOp' = "reload"
      /\ current_file_path # None
      /\ Contains(ScanDirectory(dirname(current_file_path)), current_file_path))
     => (/\ current_file_path' = current_file_path
         /\ playlist' = ScanDirectory(dirname(current_file_path))
         /\ current_index' \in 0..(Len(playlist') - 1)
         /\ playlist'[current_index' + 1] = current_file_path)]_vars

\* C8 witness: after a reload the cursor is on the current file, in a
\* playlist that has lost a file of the directory.
C8_Witness ==
  /\ lastOp = "reload" /\ current_file_path # None
  /\ current_index = 0 /\ playlist[1] = current_file_path
  /\ Len(playlist) < MaxFiles
  /\ playbackState = "Playing"

\* C9: a reload while the playing path is not among the audio files present
\* in its directory (file gone, or directory gone) stops playback and sets
\* the cursor to -1.
C9_ReloadOfMissingStops ==
  [][(/\ lastOp' = "reload"
      /\ playbackState = "Playing"
      /\ current_file_path # None
      /\ ~Contains(ScanDirectory(dirname(current_file_path)), current_file_path))
     => (playbackState' = "Stopped" /\ current_index' = -1)]_vars

\* C10: when the engine reports a failed track and the playlist is not
\* empty, the player advances: the cursor becomes (cursor + 1) mod length.
C10_FailureAdvances ==
  [][(lastOp' = "invalid_media" /\ playlist # <<>>)
     => (/\ current_index' = (current_index + 1) % Len(playlist)
         /\ playbackState' = "Playing")]_vars

\* C11: in every reachable state -1 <= current_index < len(playlist), and
\* whenever current_index is not -1 the playlist element at current_index is
\* current_file_path, which is also the source loaded in the engine.
C11_CursorOnCurrentFile ==
  /\ current_index \in -1..(Len(playlist) - 1)
  /\ current_index # -1
       => (/\ playlist[current_index + 1] = current_file_path
           /\ source = current_file_path)

\* C11 witness: previous, pressed on the first of at least two tracks, has
\* wrapped to the last one, which is now the current file.
C11_Witness ==
  /\ lastOp = "previous" /\ Len(playlist) >= 2
  /\ runStart = 0 /\ runLen = 1
  /\ current_index = Len(playlist) - 1
  /\ playlist[current_index + 1] = current_file_path

====
